---- MODULE Spec2Model ----
(***************************************************************************)
(* The alerting engine of CPU_BUDDY (alert_engine.py): the throttle gate,  *)
(* the VM CPU delta estimator and check_and_alert, stepped check by check. *)
(*                                                                         *)
(* Time is in whole seconds.  A VM's cpuTime is held in units of 10^6 ns,  *)
(* so that the 1e9 of the source is UnitsPerSecond = 1000 units.           *)
(* A dict is a function whose DOMAIN is the set of keys present.           *)
(***************************************************************************)
EXTENDS Integers, Sequences, FiniteSets, TLC

VARIABLES
    config,             \* AlertEngine.config (never written after __init__)
    clock,              \* what time.time() returns now
    last_alert_time,    \* AlertEngine.last_alert_time: alert key -> timestamp
    _last_vm_cpu_time,  \* AlertEngine._last_vm_cpu_time: vm name -> cpuTime
    snapshot,           \* the argument of the running / last check_and_alert
    pc,                 \* position inside check_and_alert ("idle": not running)
    i,                  \* index into ranked of the process being checked
    j,                  \* index into snapshot.vms of the VM being checked
    ranked,             \* sorted(procs, ...)[:20], as indices into snapshot.processes
    evals,              \* number of check_and_alert calls so far
    log,                \* alerts emitted by the running / last evaluation
    checked,            \* threshold checks reached by the running / last evaluation
    failed,             \* except-clauses entered by the running / last evaluation
    gate,               \* the most recent _throttle_ok call
    est,                \* the most recent _vm_cpu_percent_from_delta call
    trail,              \* per traced evaluation that checked host CPU: time, sample, outcome
    emitted,            \* alert key -> time of the latest alert logged under it
    delivery,           \* alert key -> what _send_email did with that alert (when traced)
    lat0,               \* last_alert_time when the running / last evaluation began
    base0,              \* _last_vm_cpu_time when the running / last evaluation began
    limits,             \* of a run of the model: clock horizon, number of calls, what is traced
    stop_event,         \* core.main: stop_event.is_set()
    main,               \* position of the main thread in core.main
    run,                \* position of the monitor thread in ProcessMonitor.run
    pending,            \* alerts the evaluation running in the monitor thread has yet to emit
    erred,              \* an exception was raised inside the running / last on_snapshot call
    cut,                \* a notification send was in flight when the interpreter exited
    signals,            \* number of SIGINT / SIGTERM delivered so far
    late,               \* snapshot acquisitions begun with the stop event set
    halted,             \* where the monitor thread stood when the interpreter exited
    last_snapshot_time, \* core.main: the time.time() stamp of the latest on_snapshot call
    base_at             \* VM name -> stamp of the snapshot that stored its baseline (when traced)

vars == <<config, clock, last_alert_time, _last_vm_cpu_time, snapshot, pc, i, j,
          ranked, evals, log, checked, failed, gate, est, trail, emitted, delivery, lat0, base0,
          limits, stop_event, main, run, pending, erred, cut, signals, late, halted,
          last_snapshot_time, base_at>>

(* the threads of core.main; check_and_alert and its steps leave them alone *)
program == <<stop_event, main, run, pending, erred, cut, signals, late, halted>>

----------------------------------------------------------------------------
(* Bounds of the model *)

MaxSpan == 5
MaxDrift == 1
MaxSendDelay == 2
MaxWait == 3
MaxEvals == 2
MaxProcs == 2
MaxVms == 2

(* Program constants *)

TopN == 20
DefaultThrottle == 60
DefaultThreshold == 100
DefaultPollInterval == 2
UnitsPerSecond == 1000

----------------------------------------------------------------------------
(* dicts *)

Get(d, k, default) == IF k \in DOMAIN d THEN d[k] ELSE default

Put(d, k, v) == [x \in DOMAIN d \cup {k} |-> IF x = k THEN v ELSE d[x]]

EmptyDict == <<>>

(* alert keys: f"host_cpu", f"proc_cpu_{pid}", f"vm_mem_{name}", ... *)
HostKey(metric) == <<metric>>
ProcKey(metric, pid) == <<metric, pid>>
VmKey(metric, name) == <<metric, name>>

IsNone == [kind |-> "None", v |-> 0]

(* an optional percent: None or a number *)
Unavailable == [avail |-> FALSE, pct |-> 0]
Percent(p) == [avail |-> TRUE, pct |-> p]

----------------------------------------------------------------------------
(* AlertEngine._throttle_ok: now1 is the clock read by the comparison,      *)
(* now2 the clock read by the assignment.                                   *)

(* _throttle_ok without `self.last_alert_time[key] = time.time()` *)
ThrottleNotRecorded(lat, cfg, key, now1, now2) ==
    LET throttle == Get(cfg, "alert_throttle_seconds", DefaultThrottle)
        last == Get(lat, key, 0)
    IN  [ok |-> ~(now1 - last < throttle), lat |-> lat]

(* _throttle_ok with `<=` for `<` *)
ThrottleOffByOne(lat, cfg, key, now1, now2) ==
    LET throttle == Get(cfg, "alert_throttle_seconds", DefaultThrottle)
        last == Get(lat, key, 0)
    IN  IF now1 - last <= throttle
        THEN [ok |-> FALSE, lat |-> lat]
        ELSE [ok |-> TRUE, lat |-> Put(lat, key, now2)]

(* _throttle_ok that stamps the key on a refusal too *)
ThrottleStampsRefusal(lat, cfg, key, now1, now2) ==
    LET throttle == Get(cfg, "alert_throttle_seconds", DefaultThrottle)
        last == Get(lat, key, 0)
    IN  [ok |-> ~(now1 - last < throttle), lat |-> Put(lat, key, now2)]

_throttle_ok(lat, cfg, key, now1, now2) ==
    LET throttle == Get(cfg, "alert_throttle_seconds", DefaultThrottle)
        last == Get(lat, key, 0)
    IN  IF now1 - last < throttle
        THEN [ok |-> FALSE, lat |-> lat]
        ELSE [ok |-> TRUE, lat |-> Put(lat, key, now2)]

(* AlertEngine._send_email: "skipped" (email disabled), "sent", "failed"    *)
(* (SMTP error caught and logged) or "raised" (enabled, but a key of the    *)
(* email section such as 'from' is missing: KeyError before the try).       *)

_send_email(cfg, smtp_ok) ==
    LET email_cfg == Get(cfg, "email", "disabled")
    IN  IF email_cfg = "disabled" THEN "skipped"
        ELSE IF email_cfg = "incomplete" THEN "raised"
        ELSE IF smtp_ok THEN "sent" ELSE "failed"

(* the rate clamped to 100 *)
CpuPercentClamped(delta, interval_seconds) ==
    LET p == (delta * 100) \div (UnitsPerSecond * interval_seconds)
    IN  IF p > 100 THEN 100 ELSE p

(* cpu_percent = (delta_ns / 1e9) / interval_seconds * 100.0 *)
CpuPercent(delta, interval_seconds) ==
    (delta * 100) \div (UnitsPerSecond * interval_seconds)

(* _vm_cpu_percent_from_delta that keeps the old baseline when the counter  *)
(* has not advanced                                                         *)
EstimatorKeepsBaseline(base, name, cpu_time_ns, interval) ==
    IF interval.kind = "None" \/ interval.v <= 0
    THEN [ret |-> Unavailable, base |-> base]
    ELSE IF name \notin DOMAIN base
    THEN [ret |-> Unavailable, base |-> Put(base, name, cpu_time_ns)]
    ELSE LET delta_ns == cpu_time_ns - base[name]
         IN  IF delta_ns <= 0 THEN [ret |-> Unavailable, base |-> base]
             ELSE [ret  |-> Percent(CpuPercent(delta_ns, interval.v)),
                   base |-> Put(base, name, cpu_time_ns)]

(* _vm_cpu_percent_from_delta that reads a missing baseline as 0 *)
EstimatorFromZero(base, name, cpu_time_ns, interval) ==
    IF interval.kind = "None" \/ interval.v <= 0
    THEN [ret |-> Unavailable, base |-> base]
    ELSE LET delta_ns == cpu_time_ns - Get(base, name, 0)
         IN  [ret  |-> IF delta_ns <= 0 THEN Unavailable
                       ELSE Percent(CpuPercent(delta_ns, interval.v)),
              base |-> Put(base, name, cpu_time_ns)]

(* AlertEngine._vm_cpu_percent_from_delta: the returned value and the new   *)
(* _last_vm_cpu_time.  interval is [kind |-> "None" | "num", v |-> seconds]. *)

_vm_cpu_percent_from_delta(base, name, cpu_time_ns, interval) ==
    IF interval.kind = "None" \/ interval.v <= 0
    THEN [ret |-> Unavailable, base |-> base]
    ELSE IF name \notin DOMAIN base
    THEN [ret |-> Unavailable, base |-> Put(base, name, cpu_time_ns)]
    ELSE LET delta_ns == cpu_time_ns - base[name]
         IN  [ret  |-> IF delta_ns <= 0 THEN Unavailable
                       ELSE Percent(CpuPercent(delta_ns, interval.v)),
              base |-> Put(base, name, cpu_time_ns)]

(* _vm_cpu_percent_from_delta assigns _last_vm_cpu_time[name] exactly when  *)
(* it gets past the interval test of lines 54-55                            *)
Stores(interval) == interval.kind = "num" /\ interval.v > 0

(* mem_percent without the `if max_mem_kb > 0`: a missing limit counts as 1 KB *)
VmMemPercentUnguarded(mem_kb, max_mem_kb) ==
    Percent((mem_kb * 100) \div (IF max_mem_kb > 0 THEN max_mem_kb ELSE 1))

(* mem_percent = (mem_kb / max_mem_kb) * 100.0 if max_mem_kb > 0 else None *)
VmMemPercent(mem_kb, max_mem_kb) ==
    IF max_mem_kb > 0 THEN Percent((mem_kb * 100) \div max_mem_kb) ELSE Unavailable

(* snapshot.get("interval"): no fallback to poll_interval *)
IntervalNoFallback(snap, cfg) ==
    IF snap.interval.kind = "absent" THEN IsNone ELSE snap.interval

(* snapshot.get("interval", self.config.get("poll_interval", 2)) *)
IntervalOf(snap, cfg) ==
    IF snap.interval.kind = "absent"
    THEN [kind |-> "num", v |-> Get(cfg, "poll_interval", DefaultPollInterval)]
    ELSE snap.interval

(* sorted(procs, key=lambda x: x.cpu, reverse=True): a stable sort, so      *)
(* records of equal cpu keep their input order.  Indices into procs.        *)
RECURSIVE InsertDesc(_, _, _)
InsertDesc(procs, s, x) ==
    IF s = <<>> THEN <<x>>
    ELSE IF procs[Head(s)].cpu >= procs[x].cpu
    THEN <<Head(s)>> \o InsertDesc(procs, Tail(s), x)
    ELSE <<x>> \o s

RECURSIVE SortedDesc(_, _)
SortedDesc(procs, n) ==
    IF n = 0 THEN <<>> ELSE InsertDesc(procs, SortedDesc(procs, n - 1), n)

(* the sorted list without the [:20] *)
TopUncut(s) == s

(* [:20] *)
Top(s) == IF Len(s) <= TopN THEN s ELSE SubSeq(s, 1, TopN)

Ranked(procs) == Top(SortedDesc(procs, Len(procs)))

----------------------------------------------------------------------------
(* Positions of check_and_alert *)

Pos(p, ii, jj) == [pc |-> p, i |-> ii, j |-> jj]

Goto(pos) == pc' = pos.pc /\ i' = pos.i /\ j' = pos.j

Done == Pos("idle", 0, 0)

(* for vm in vms: the record after j, or the end of check_and_alert *)
VmFrom(jj) == IF jj <= Len(snapshot.vms) THEN Pos("vm_cpu", 0, jj) ELSE Done

(* for p in sorted(...)[:20]: the process after ii, or on to the VM checks *)
ProcFrom(rk, ii) == IF ii <= Len(rk) THEN Pos("proc_cpu", ii, 0) ELSE VmFrom(1)

(* Fire that takes the timestamp back when the delivery fails *)
FireRollsBack(key, subject, ok_pos, raise_pos, scope) ==
    \E d \in 0..MaxDrift, smtp_ok \in BOOLEAN, delay \in 0..MaxSendDelay :
        LET g == _throttle_ok(last_alert_time, config, key, clock, clock + d)
            out == _send_email(config, smtp_ok)
            took == IF out \in {"sent", "failed"} THEN delay ELSE 0
        IN  /\ gate' = [key |-> key, now |-> clock, known |-> key \in DOMAIN last_alert_time,
                        last |-> Get(last_alert_time, key, 0), ok |-> g.ok,
                        unsent |-> Get(delivery, key, "none") \in {"failed", "raised"}]
            /\ last_alert_time' = IF g.ok /\ out \in {"failed", "raised"}
                                  THEN last_alert_time ELSE g.lat
            /\ IF g.ok
               THEN /\ clock + d + took <= limits.horizon
                    /\ clock' = clock + d + took
                    /\ log' = Append(log, [key |-> key, subject |-> subject,
                                           at |-> clock + d, send |-> out,
                                           again |-> key \in DOMAIN emitted,
                                           before |-> Get(emitted, key, 0)])
                    /\ emitted' = Put(emitted, key, clock + d)
                    /\ delivery' = IF "delivery" \in limits.traced
                                   THEN Put(delivery, key, out) ELSE delivery
                    /\ failed' = IF out = "raised" THEN failed \cup {scope} ELSE failed
                    /\ Goto(IF out = "raised" THEN raise_pos ELSE ok_pos)
               ELSE /\ clock' = clock
                    /\ log' = log
                    /\ emitted' = emitted
                    /\ delivery' = delivery
                    /\ failed' = failed
                    /\ Goto(ok_pos)

(* if self._throttle_ok(key): self._emit_alert(subject, msg, key), inside   *)
(* the try whose except-clause is `scope`: on to ok_pos, or to raise_pos    *)
(* when _send_email raises.                                                 *)
Fire(key, subject, ok_pos, raise_pos, scope) ==
    \E d \in 0..MaxDrift, smtp_ok \in BOOLEAN, delay \in 0..MaxSendDelay :
        LET g == _throttle_ok(last_alert_time, config, key, clock, clock + d)
            out == _send_email(config, smtp_ok)
            took == IF out \in {"sent", "failed"} THEN delay ELSE 0
        IN  /\ gate' = [key |-> key, now |-> clock, known |-> key \in DOMAIN last_alert_time,
                        last |-> Get(last_alert_time, key, 0), ok |-> g.ok,
                        unsent |-> Get(delivery, key, "none") \in {"failed", "raised"}]
            /\ last_alert_time' = g.lat
            /\ IF g.ok
               THEN /\ clock + d + took <= limits.horizon
                    /\ clock' = clock + d + took
                    /\ log' = Append(log, [key |-> key, subject |-> subject,
                                           at |-> clock + d, send |-> out,
                                           again |-> key \in DOMAIN emitted,
                                           before |-> Get(emitted, key, 0)])
                    /\ emitted' = Put(emitted, key, clock + d)
                    /\ delivery' = IF "delivery" \in limits.traced
                                   THEN Put(delivery, key, out) ELSE delivery
                    /\ failed' = IF out = "raised" THEN failed \cup {scope} ELSE failed
                    /\ Goto(IF out = "raised" THEN raise_pos ELSE ok_pos)
               ELSE /\ clock' = clock
                    /\ log' = log
                    /\ emitted' = emitted
                    /\ delivery' = delivery
                    /\ failed' = failed
                    /\ Goto(ok_pos)

(* the threshold is not met: nothing is gated or emitted *)
Pass(pos) ==
    /\ UNCHANGED <<gate, last_alert_time, clock, log, failed, emitted, delivery>>
    /\ Goto(pos)

(* the VM checks with one try around the whole loop, as the process checks have *)
RaiseEndsVmLoop(pos, scope) ==
    /\ UNCHANGED <<gate, last_alert_time, clock, log, emitted, delivery>>
    /\ failed' = failed \cup {scope}
    /\ Goto(IF scope[1] = "vm" THEN Done ELSE pos)

(* an exception caught by the except-clause `scope` *)
Raise(pos, scope) ==
    /\ UNCHANGED <<gate, last_alert_time, clock, log, emitted, delivery>>
    /\ failed' = failed \cup {scope}
    /\ Goto(pos)

----------------------------------------------------------------------------
(* check_and_alert, lines 84-99: host checks *)

HostCpuCheck ==
    /\ pc = "host_cpu"
    /\ UNCHANGED <<program, last_snapshot_time, base_at>>
    /\ UNCHANGED <<config, limits, lat0, base0, _last_vm_cpu_time, snapshot, ranked, evals, est>>
    /\ LET host == snapshot.host
           thr == Get(config, "host_alerts.cpu_percent", DefaultThreshold)
       IN  IF host.kind = "none"
           THEN Pass(Pos("sort", 0, 0)) /\ UNCHANGED <<checked, trail>>
           ELSE IF host.kind = "no_attr"
           THEN Raise(Pos("sort", 0, 0), <<"host">>) /\ UNCHANGED <<checked, trail>>
           ELSE /\ checked' = checked \cup {<<"host_cpu">>}
                /\ IF host.cpu_percent >= thr
                   THEN Fire(HostKey("host_cpu"), "Host CPU Alert",
                             Pos("host_mem", 0, 0), Pos("sort", 0, 0), <<"host">>)
                   ELSE Pass(Pos("host_mem", 0, 0))
                /\ trail' = IF "trail" \in limits.traced
                            THEN Append(trail, [at |-> clock, cpu |-> host.cpu_percent,
                                                emitted |-> Len(log') > Len(log)])
                            ELSE trail

HostMemCheck ==
    /\ pc = "host_mem"
    /\ UNCHANGED <<program, last_snapshot_time, base_at>>
    /\ UNCHANGED <<config, limits, lat0, base0, _last_vm_cpu_time, snapshot, ranked, evals, est, trail>>
    /\ LET host == snapshot.host
           thr == Get(config, "host_alerts.memory_percent", DefaultThreshold)
       IN  IF host.kind = "no_mem"
           THEN Raise(Pos("sort", 0, 0), <<"host">>) /\ UNCHANGED checked
           ELSE /\ checked' = checked \cup {<<"host_mem">>}
                /\ IF host.mem_percent >= thr
                   THEN Fire(HostKey("host_mem"), "Host Memory Alert",
                             Pos("sort", 0, 0), Pos("sort", 0, 0), <<"host">>)
                   ELSE Pass(Pos("sort", 0, 0))

(* lines 101-118: process checks *)

ProcSort ==
    /\ pc = "sort"
    /\ UNCHANGED <<program, last_snapshot_time, base_at>>
    /\ UNCHANGED <<config, limits, lat0, base0, _last_vm_cpu_time, snapshot, evals, est, trail, checked>>
    /\ LET procs == snapshot.processes
       IN  IF \E n \in 1..Len(procs) : procs[n].kind = "no_cpu"
           THEN Raise(VmFrom(1), <<"procs">>) /\ ranked' = <<>>
           ELSE /\ ranked' = Ranked(procs)
                /\ Pass(ProcFrom(ranked', 1))

ProcCpuCheck ==
    /\ pc = "proc_cpu"
    /\ UNCHANGED <<program, last_snapshot_time, base_at>>
    /\ UNCHANGED <<config, limits, lat0, base0, _last_vm_cpu_time, snapshot, ranked, evals, est, trail>>
    /\ LET p == snapshot.processes[ranked[i]]
           cpu_thr == Get(config, "process_alerts.cpu_percent", DefaultThreshold)
       IN  /\ checked' = checked \cup {<<"proc_cpu", ranked[i]>>}
           /\ IF p.cpu >= cpu_thr
              THEN Fire(ProcKey("proc_cpu", p.pid), "Process CPU Alert",
                        Pos("proc_mem", i, 0), VmFrom(1), <<"procs">>)
              ELSE Pass(Pos("proc_mem", i, 0))

ProcMemCheck ==
    /\ pc = "proc_mem"
    /\ UNCHANGED <<program, last_snapshot_time, base_at>>
    /\ UNCHANGED <<config, limits, lat0, base0, _last_vm_cpu_time, snapshot, ranked, evals, est, trail>>
    /\ LET p == snapshot.processes[ranked[i]]
           mem_thr == Get(config, "process_alerts.memory_percent", DefaultThreshold)
       IN  IF p.kind = "no_mem"
           THEN Raise(VmFrom(1), <<"procs">>) /\ UNCHANGED checked
           ELSE /\ checked' = checked \cup {<<"proc_mem", ranked[i]>>}
                /\ IF p.mem_percent >= mem_thr
                   THEN Fire(ProcKey("proc_mem", p.pid), "Process Memory Alert",
                             ProcFrom(ranked, i + 1), VmFrom(1), <<"procs">>)
                   ELSE Pass(ProcFrom(ranked, i + 1))

(* lines 120-171: VM checks *)

VmCpuCheck ==
    /\ pc = "vm_cpu"
    /\ UNCHANGED <<program, last_snapshot_time>>
    /\ UNCHANGED <<config, limits, lat0, base0, snapshot, ranked, evals, trail>>
    /\ LET vm == snapshot.vms[j]
           interval == IntervalOf(snapshot, config)
           vm_cpu_thr == Get(config, "vm_alerts.cpu_percent", DefaultThreshold)
           r == _vm_cpu_percent_from_delta(_last_vm_cpu_time, vm.name, vm.cpuTime, interval)
       IN  IF vm.kind = "bad"
           THEN /\ Raise(VmFrom(j + 1), <<"vm", j>>)
                /\ UNCHANGED <<_last_vm_cpu_time, est, checked, base_at>>
           ELSE /\ _last_vm_cpu_time' = r.base
                /\ base_at' = IF "baseline" \in limits.traced /\ Stores(interval)
                              THEN Put(base_at, vm.name, last_snapshot_time)
                              ELSE base_at
                /\ checked' = checked \cup {<<"vm_cpu", j>>}
                /\ IF r.ret.avail /\ r.ret.pct >= vm_cpu_thr
                   THEN Fire(VmKey("vm_cpu", vm.name), "VM CPU Alert",
                             Pos("vm_mem", 0, j), VmFrom(j + 1), <<"vm", j>>)
                   ELSE Pass(Pos("vm_mem", 0, j))
                /\ est' = [name |-> vm.name, value |-> vm.cpuTime, interval |-> interval,
                           known |-> vm.name \in DOMAIN _last_vm_cpu_time,
                           prev |-> Get(_last_vm_cpu_time, vm.name, 0), ret |-> r.ret,
                           alerted |-> Len(log') > Len(log),
                           since |-> IF vm.name \in DOMAIN base_at
                                     THEN last_snapshot_time - base_at[vm.name]
                                     ELSE 0]

VmMemCheck ==
    /\ pc = "vm_mem"
    /\ UNCHANGED <<program, last_snapshot_time, base_at>>
    /\ UNCHANGED <<config, limits, lat0, base0, _last_vm_cpu_time, snapshot, ranked, evals, est, trail>>
    /\ LET vm == snapshot.vms[j]
           vm_mem_thr == Get(config, "vm_alerts.memory_percent", DefaultThreshold)
           mem_percent == VmMemPercent(vm.memKB, vm.maxMemKB)
       IN  /\ checked' = checked \cup {<<"vm_mem", j>>}
           /\ IF mem_percent.avail /\ mem_percent.pct >= vm_mem_thr
              THEN Fire(VmKey("vm_mem", vm.name), "VM Memory Alert",
                        VmFrom(j + 1), VmFrom(j + 1), <<"vm", j>>)
              ELSE Pass(VmFrom(j + 1))

NoGate == [key |-> <<"none">>, now |-> 0, known |-> FALSE, last |-> 0, ok |-> FALSE,
           unsent |-> FALSE]
NoEst == [name |-> "", value |-> 0, interval |-> IsNone, known |-> FALSE, prev |-> 0,
          ret |-> Unavailable, alerted |-> FALSE, since |-> 0]

(* a call of check_and_alert(snap), `wait` seconds after the previous one *)
check_and_alert(snap, wait) ==
    /\ pc = "idle"
    /\ evals < limits.evals
    /\ clock + wait <= limits.horizon
    /\ clock' = clock + wait
    /\ snapshot' = snap
    /\ evals' = evals + 1
    /\ log' = <<>>
    /\ checked' = {}
    /\ failed' = {}
    /\ ranked' = <<>>
    /\ gate' = NoGate
    /\ est' = NoEst
    /\ Goto(Pos("host_cpu", 0, 0))
    /\ lat0' = last_alert_time
    /\ base0' = _last_vm_cpu_time
    /\ UNCHANGED <<config, limits, last_alert_time, _last_vm_cpu_time, trail, emitted, delivery>>
    /\ UNCHANGED <<program, base_at>>

----------------------------------------------------------------------------
(* Inputs: the snapshots a caller passes to check_and_alert *)

Host(kind, c, m) == [kind |-> kind, cpu_percent |-> c, mem_percent |-> m]
Proc(kind, pid, c, m) == [kind |-> kind, pid |-> pid, cpu |-> c, mem_percent |-> m]
Vm(kind, name, t, max, mem) ==
    [kind |-> kind, name |-> name, cpuTime |-> t, maxMemKB |-> max, memKB |-> mem]
Snap(h, ps, vs, iv) == [host |-> h, processes |-> ps, vms |-> vs, interval |-> iv]

Absent == [kind |-> "absent", v |-> 0]
Secs(n) == [kind |-> "num", v |-> n]

(* host: None, an object without cpu_percent, one without mem_percent, HostMetrics *)
HostNone == Host("none", 0, 0)
Hosts ==
    {HostNone, Host("no_attr", 0, 0), Host("no_mem", 95, 0)}
        \cup {Host("ok", c, m) : c \in {50, 95}, m \in {50, 95}}

(* processes: ProcessSnapshot records, one whose mem_percent is None ("no_mem"), *)
(* an object without a cpu attribute ("no_cpu")                                  *)
ProcRecs ==
    {Proc("ok", pid, cm[1], cm[2]) : pid \in 1..2, cm \in {<<95, 95>>, <<50, 10>>, <<99, 10>>}}
        \cup {Proc("no_mem", 1, 97, 0), Proc("no_cpu", 1, 0, 0)}

(* VM dicts as list_domains builds them; "bad": cpuTime is not a number *)
VmRecs ==
    {Vm("ok", n, t, mm[1], mm[2]) :
        n \in {"A", "B"}, t \in {1000, 3000}, mm \in {<<0, 950>>, <<1000, 950>>}}
        \cup {Vm("bad", "A", 0, 1000, 950)}

Intervals == {Absent, IsNone, Secs(0), Secs(0 - 1), Secs(1), Secs(2)}

(* lists of up to n records: any first record, the later ones among `more` *)
RECURSIVE Lists(_, _, _)
Lists(first, more, n) ==
    IF n = 0 THEN {<<>>}
    ELSE LET shorter == Lists(first, more, n - 1)
         IN  shorter \cup {<<f>> : f \in first}
                 \cup {Append(l, m) : l \in shorter \ {<<>>}, m \in more}

ProcLists ==
    Lists(ProcRecs, {Proc("ok", 2, 95, 95), Proc("ok", 1, 99, 10), Proc("no_mem", 1, 97, 0)},
          MaxProcs)

VmLists ==
    Lists(VmRecs, {Vm("ok", "B", 3000, 1000, 950), Vm("ok", "A", 3000, 1000, 950),
                   Vm("bad", "A", 0, 1000, 950)}, MaxVms)

(* snapshots that exercise one dimension each, and a few that mix them *)
HostSnapshots == {Snap(h, <<>>, <<>>, Absent) : h \in Hosts}

ProcSnapshots == {Snap(HostNone, ps, <<>>, Absent) : ps \in ProcLists}

VmSnapshots ==
    {Snap(HostNone, <<>>, <<v>>, iv) : v \in VmRecs, iv \in Intervals}
        \cup {Snap(HostNone, <<>>, vs, Secs(2)) : vs \in VmLists}
        \cup {Snap(HostNone, <<>>, <<Vm("ok", "A", 500, 1000, 950)>>, Secs(2))}

MixedSnapshots ==
    {Snap(h, ps, vs, iv) :
        h \in {Host("no_attr", 0, 0), Host("ok", 95, 95)},
        ps \in {<<Proc("no_cpu", 1, 0, 0)>>, <<Proc("no_mem", 1, 97, 0)>>,
                <<Proc("ok", 1, 95, 95)>>},
        vs \in {<<Vm("ok", "A", 3000, 1000, 950)>>,
                <<Vm("ok", "A", 3000, 0, 950), Vm("ok", "B", 3000, 0, 950)>>},
        iv \in {Secs(0), Secs(2)}}

(* one snapshot that goes through every check without an alert *)
QuietSnapshot ==
    Snap(Host("ok", 50, 50), <<Proc("ok", 1, 50, 10)>>, <<Vm("ok", "A", 1000, 1000, 100)>>, Secs(2))

(* snapshots for the throttle gate: few keys, some of them twice in one snapshot *)
TimingSnapshots ==
    {QuietSnapshot}
        \cup {Snap(h, <<>>, <<>>, Absent) :
                h \in {Host("ok", 95, 50), Host("ok", 95, 95), Host("no_mem", 95, 0)}}
        \cup {Snap(HostNone, ps, <<>>, Absent) :
                ps \in {<<Proc("ok", 1, 95, 95)>>,
                        <<Proc("ok", 1, 95, 10), Proc("ok", 1, 95, 10)>>}}
        \cup {Snap(HostNone, <<>>, vs, Secs(2)) :
                vs \in {<<Vm("ok", "A", 1000, 1000, 950)>>,
                        <<Vm("ok", "A", 1000, 1000, 950), Vm("ok", "A", 3000, 1000, 950)>>}}

(* config.json: every threshold set to 90; the throttle window and the email *)
(* section vary                                                              *)
Config(throttle, email) ==
    [k \in {"alert_throttle_seconds", "host_alerts.cpu_percent", "host_alerts.memory_percent",
            "process_alerts.cpu_percent", "process_alerts.memory_percent",
            "vm_alerts.cpu_percent", "vm_alerts.memory_percent", "email"} |->
        IF k = "alert_throttle_seconds" THEN throttle
        ELSE IF k = "email" THEN email
        ELSE 90]

EmailConfigs == {"disabled", "enabled", "incomplete"}

(* core.main, lines 22-87: the monitor thread is started, the handlers are  *)
(* installed, the main thread is about to enter its loop                    *)
InitProgram ==
    /\ stop_event = FALSE
    /\ main = "test"
    /\ run = "test"
    /\ pending = 0
    /\ erred = FALSE
    /\ cut = FALSE
    /\ signals = 0
    /\ late = 0
    /\ halted = "nowhere"

(* AlertEngine.__init__ *)
InitEngine(cfgs, clocks, span, calls, traced) ==
    /\ config \in cfgs
    /\ clock \in clocks
    /\ limits = [horizon |-> clock + span, evals |-> calls, traced |-> traced]
    /\ emitted = EmptyDict
    /\ delivery = EmptyDict
    /\ lat0 = EmptyDict
    /\ base0 = EmptyDict
    /\ last_alert_time = EmptyDict
    /\ _last_vm_cpu_time = EmptyDict
    /\ snapshot = Snap(HostNone, <<>>, <<>>, Absent)
    /\ pc = "idle" /\ i = 0 /\ j = 0
    /\ ranked = <<>>
    /\ evals = 0
    /\ log = <<>>
    /\ checked = {}
    /\ failed = {}
    /\ gate = NoGate
    /\ est = NoEst
    /\ trail = <<>>
    /\ last_snapshot_time = clock
    /\ base_at = EmptyDict
    /\ InitProgram

----------------------------------------------------------------------------
(* Spec: the throttle gate under a clock that advances between the two      *)
(* reads of _throttle_ok, during a delivery and between evaluations.        *)

Init ==
    InitEngine({Config(2, e) : e \in EmailConfigs} \cup {Config(3, "disabled")}, {0},
               MaxSpan, MaxEvals, {"delivery"})

Evaluate ==
    /\ \E snap \in TimingSnapshots, wait \in 0..MaxWait : check_and_alert(snap, wait)
    /\ UNCHANGED last_snapshot_time

Next ==
    \/ Evaluate
    \/ HostCpuCheck
    \/ HostMemCheck
    \/ ProcSort
    \/ ProcCpuCheck
    \/ ProcMemCheck
    \/ VmCpuCheck
    \/ VmMemCheck

Spec == Init /\ [][Next]_vars

(* SpecVm and SpecPasses: the checks of an evaluation over malformed and    *)
(* well-formed records, under a clock that stands still (every read of a    *)
(* run returns the same time, which is not below the throttle window).      *)
(* SpecVm has the VM lists, SpecPasses the process lists and the snapshots  *)
(* that mix the three kinds of check.                                       *)

InitStill == InitEngine({Config(2, e) : e \in EmailConfigs}, {2}, 0, MaxEvals, {})

EvaluateVm ==
    /\ \E snap \in VmSnapshots \cup {QuietSnapshot} : check_and_alert(snap, 0)
    /\ UNCHANGED last_snapshot_time

NextVm ==
    \/ EvaluateVm
    \/ HostCpuCheck
    \/ HostMemCheck
    \/ ProcSort
    \/ ProcCpuCheck
    \/ ProcMemCheck
    \/ VmCpuCheck
    \/ VmMemCheck

SpecVm == InitStill /\ [][NextVm]_vars

EvaluatePasses ==
    /\ \E snap \in HostSnapshots \cup ProcSnapshots \cup MixedSnapshots \cup {QuietSnapshot} :
          check_and_alert(snap, 0)
    /\ UNCHANGED last_snapshot_time

NextPasses ==
    \/ EvaluatePasses
    \/ HostCpuCheck
    \/ HostMemCheck
    \/ ProcSort
    \/ ProcCpuCheck
    \/ ProcMemCheck
    \/ VmCpuCheck
    \/ VmMemCheck

SpecPasses == InitStill /\ [][NextPasses]_vars

(* SpecScenario: the host CPU threshold 90 and the window 60 of the         *)
(* end-to-end scenario, with evaluations 5, 59 or 60 seconds apart, from a  *)
(* clock below the window and from one that has reached it.                 *)

ScenarioSpan == 125
ScenarioEvals == 3

ScenarioSnapshots ==
    {Snap(Host("ok", c, 50), ps, vs, Secs(2)) :
        c \in {50, 95, 96, 97},
        ps \in {<<>>, <<Proc("ok", 1, 50, 10)>>},
        vs \in {<<>>, <<Vm("ok", "A", 1000, 1000, 100)>>}}

InitScenario ==
    InitEngine({Config(60, "disabled")}, {0, 60}, ScenarioSpan, ScenarioEvals, {"trail"})

EvaluateScenario ==
    /\ \E snap \in ScenarioSnapshots, wait \in {5, 59, 60} : check_and_alert(snap, wait)
    /\ UNCHANGED last_snapshot_time

NextScenario ==
    \/ EvaluateScenario
    \/ HostCpuCheck
    \/ HostMemCheck
    \/ ProcSort
    \/ ProcCpuCheck
    \/ ProcMemCheck
    \/ VmCpuCheck
    \/ VmMemCheck

SpecScenario == InitScenario /\ [][NextScenario]_vars

(* SpecCap: more process records than the 20 that are evaluated: every     *)
(* record at 95% CPU but one (at 99% or 50%), pids 1..n in input order.     *)

MaxExtra == 2

CapList(n, k, c, m) ==
    [x \in 1..n |-> Proc("ok", x, IF x = k THEN c ELSE 95, m)]

CapSnapshots ==
    {Snap(Host("ok", 50, 50), CapList(n, k, c, m), <<Vm("ok", "A", 1000, 1000, 100)>>, Secs(2)) :
        n \in (TopN - 1)..(TopN + MaxExtra), k \in {0, 1, TopN, TopN + 1, TopN + 2},
        c \in {50, 99}, m \in {10, 95}}

InitCap == InitEngine({Config(2, "disabled")}, {2}, 0, MaxEvals, {})

EvaluateCap ==
    /\ \E snap \in CapSnapshots : check_and_alert(snap, 0)
    /\ UNCHANGED last_snapshot_time

NextCap ==
    \/ EvaluateCap
    \/ HostCpuCheck
    \/ HostMemCheck
    \/ ProcSort
    \/ ProcCpuCheck
    \/ ProcMemCheck
    \/ VmCpuCheck
    \/ VmMemCheck

SpecCap == InitCap /\ [][NextCap]_vars

(* SpecConfig: configurations that leave options out (the defaults of the   *)
(* code apply: thresholds 100, window 60, poll_interval 2) or set every     *)
(* threshold to 0, over host metrics at the ends of their ranges and VM     *)
(* records with and without a memory limit; the clock stands still at 60.   *)

BareConfig == [k \in {"email"} |-> "disabled"]

ZeroConfig ==
    [k \in {"alert_throttle_seconds", "host_alerts.cpu_percent", "host_alerts.memory_percent",
            "process_alerts.cpu_percent", "process_alerts.memory_percent",
            "vm_alerts.cpu_percent", "vm_alerts.memory_percent", "email", "poll_interval"} |->
        IF k = "alert_throttle_seconds" THEN 2
        ELSE IF k = "email" THEN "disabled"
        ELSE IF k = "poll_interval" THEN 1
        ELSE 0]

ConfigHosts == {Host("ok", c, m) : c \in {0, 99, 100, 150}, m \in {0, 99, 100}}

ConfigVms ==
    {Vm("ok", "A", t, mm[1], mm[2]) :
        t \in {1000, 3000}, mm \in {<<0, 0>>, <<0, 950>>, <<1000, 950>>, <<1000, 1000>>}}

ConfigSnapshots ==
    {QuietSnapshot}
        \cup {Snap(h, <<>>, <<>>, Absent) : h \in ConfigHosts}
        \cup {Snap(HostNone, <<>>, <<v>>, iv) : v \in ConfigVms, iv \in Intervals}
        \cup {Snap(HostNone, <<>>, <<v, Vm("ok", "B", 3000, 0, 950)>>, Absent) : v \in ConfigVms}

InitConfig ==
    InitEngine({BareConfig, ZeroConfig, Config(2, "disabled")}, {DefaultThrottle}, 0,
               MaxEvals, {})

EvaluateConfig ==
    /\ \E snap \in ConfigSnapshots : check_and_alert(snap, 0)
    /\ UNCHANGED last_snapshot_time

NextConfig ==
    \/ EvaluateConfig
    \/ HostCpuCheck
    \/ HostMemCheck
    \/ ProcSort
    \/ ProcCpuCheck
    \/ ProcMemCheck
    \/ VmCpuCheck
    \/ VmMemCheck

SpecConfig == InitConfig /\ [][NextConfig]_vars

----------------------------------------------------------------------------
(* core.main and ProcessMonitor.run: the main thread, the signal handler    *)
(* and the monitor thread (a daemon thread, core.py line 78).  An           *)
(* evaluation is followed here as far as the threads see it: it emits some  *)
(* alerts one after the other, each with a send that takes time, and        *)
(* returns or raises; what it does to the engine's maps is the subject of   *)
(* the specifications above and is left out.                                *)
(*                                                                          *)
(* main: "test" (line 91), "wait" (line 92), "finally" (line 94), "exited". *)
(* run:  "test" (line 61), "sample" (lines 62-63), "list" (on_snapshot,     *)
(*       lines 50-66), "evaluate" (check_and_alert, line 73), "send" (the   *)
(*       SMTP conversation of _send_email, lines 35-39), "wait" (line 65),  *)
(*       "returned" (the loop has ended), "crashed" (an exception has left  *)
(*       run), "killed" (the interpreter exited under the daemon thread).   *)

MaxAlerts == 2
MaxSignals == 2

engine == <<config, clock, last_alert_time, _last_vm_cpu_time, snapshot, pc, i, j,
            ranked, evals, log, checked, failed, gate, est, trail, emitted, delivery,
            lat0, base0, limits, base_at>>

(* an exception that no except-clause of on_snapshot catches *)
Uncaught(pos) == "crashed"

(* `except Exception` in on_snapshot (lines 58 and 74): the thread goes on at pos *)
Caught(pos) == pos

(* core.py lines 82-84, run by SIGINT or SIGTERM *)
handle_signals ==
    /\ main # "exited"
    /\ signals < MaxSignals
    /\ signals' = signals + 1
    /\ stop_event' = TRUE
    /\ UNCHANGED <<engine, last_snapshot_time, main, run, pending, erred, cut, late, halted>>

(* line 91: while not stop_event.is_set() *)
MainTest ==
    /\ main = "test"
    /\ main' = IF stop_event THEN "finally" ELSE "wait"
    /\ UNCHANGED <<engine, last_snapshot_time, stop_event, run, pending, erred, cut, signals, late, halted>>

(* line 92: stop_event.wait(1) returns *)
MainWait ==
    /\ main = "wait"
    /\ main' = "test"
    /\ UNCHANGED <<engine, last_snapshot_time, stop_event, run, pending, erred, cut, signals, late, halted>>

(* lines 93-94 and the return of main: the interpreter exits without        *)
(* waiting for the daemon thread, wherever that thread stands               *)
MainExit ==
    /\ main = "finally"
    /\ main' = "exited"
    /\ cut' = (run = "send")
    /\ halted' = run
    /\ run' = IF run \in {"returned", "crashed"} THEN run ELSE "killed"
    /\ UNCHANGED <<engine, last_snapshot_time, stop_event, pending, erred, signals, late>>

(* process_monitor.py line 61: while not stop_event.is_set() *)
RunTest ==
    /\ run = "test"
    /\ run' = IF stop_event THEN "returned" ELSE "sample"
    /\ UNCHANGED <<engine, last_snapshot_time, stop_event, main, pending, erred, cut, signals, late, halted>>

(* lines 62-64: sample_host, sample_processes, callback(...) is entered *)
RunSample ==
    /\ run = "sample"
    /\ run' = "list"
    /\ erred' = FALSE
    /\ late' = IF stop_event THEN late + 1 ELSE late
    /\ UNCHANGED <<engine, last_snapshot_time, stop_event, main, pending, cut, signals, halted>>

(* on_snapshot, lines 46-73: the VMs are listed (a failure of list_domains  *)
(* is caught at line 58 and leaves vms = []) and check_and_alert is called  *)
(* with a snapshot that makes it emit n alerts                              *)
on_snapshot ==
    /\ run = "list"
    /\ \E listed \in BOOLEAN, n \in 0..MaxAlerts :
          /\ erred' = ~listed
          /\ run' = IF listed THEN "evaluate" ELSE Caught("evaluate")
          /\ pending' = n
    /\ last_snapshot_time' = clock
    /\ UNCHANGED <<engine, stop_event, main, cut, signals, late, halted>>

(* _emit_alert, alert_engine.py lines 173-177: _send_email opens the SMTP   *)
(* connection (line 35)                                                     *)
EmitAlert ==
    /\ run = "evaluate"
    /\ pending > 0
    /\ pending' = pending - 1
    /\ run' = "send"
    /\ UNCHANGED <<engine, last_snapshot_time, stop_event, main, erred, cut, signals, late, halted>>

(* lines 36-42: the conversation ends, in s.quit() or in the except-clause *)
SendEnds ==
    /\ run = "send"
    /\ run' = "evaluate"
    /\ UNCHANGED <<engine, last_snapshot_time, stop_event, main, pending, erred, cut, signals, late, halted>>

(* check_and_alert returns to on_snapshot, on_snapshot to run *)
EvaluationReturns ==
    /\ run = "evaluate"
    /\ pending = 0
    /\ run' = "wait"
    /\ UNCHANGED <<engine, last_snapshot_time, stop_event, main, pending, erred, cut, signals, late, halted>>

(* check_and_alert raises: core.py lines 74-75 *)
EvaluationRaises ==
    /\ run = "evaluate"
    /\ erred' = TRUE
    /\ pending' = 0
    /\ run' = Caught("wait")
    /\ UNCHANGED <<engine, last_snapshot_time, stop_event, main, cut, signals, late, halted>>

(* process_monitor.py line 65: stop_event.wait(self.poll_interval) returns *)
RunWait ==
    /\ run = "wait"
    /\ run' = "test"
    /\ UNCHANGED <<engine, last_snapshot_time, stop_event, main, pending, erred, cut, signals, late, halted>>

InitCore == InitEngine({Config(2, "enabled")}, {0}, 0, 0, {})

MonitorNext ==
    \/ RunTest
    \/ RunSample
    \/ on_snapshot
    \/ EmitAlert
    \/ SendEnds
    \/ EvaluationReturns
    \/ EvaluationRaises
    \/ RunWait

NextCore ==
    \/ handle_signals
    \/ MainTest
    \/ MainWait
    \/ MainExit
    \/ RunTest
    \/ RunSample
    \/ on_snapshot
    \/ EmitAlert
    \/ SendEnds
    \/ EvaluationReturns
    \/ EvaluationRaises
    \/ RunWait

SpecCore == InitCore /\ [][NextCore]_vars

(* the monitor thread is scheduled as long as the process lives *)
SpecCoreFair == InitCore /\ [][NextCore]_vars /\ WF_vars(MonitorNext)

----------------------------------------------------------------------------
(* SpecElapsed: check_and_alert called the way core.on_snapshot calls it.   *)
(* The snapshot's interval is the time since the previous on_snapshot call  *)
(* (core.py lines 50-52), its VM list is what list_domains returned, or []  *)
(* when list_domains raised (lines 55-62).                                  *)

ElapsedVms ==
    {Vm("ok", "A", t, 1000, 100) : t \in {1000, 3000}} \cup {Vm("bad", "A", 0, 1000, 100)}

ElapsedLists == {<<>>} \cup {<<v>> : v \in ElapsedVms}

InitElapsed == InitEngine({Config(2, "disabled")}, {0}, MaxSpan, ScenarioEvals, {"baseline"})

EvaluateElapsed ==
    \E wait \in 0..MaxWait, listed \in BOOLEAN, domains \in ElapsedLists :
        LET now == clock + wait
            interval == now - last_snapshot_time
            vms == IF listed THEN domains ELSE <<>>
        IN  /\ check_and_alert(Snap(Host("ok", 50, 50), <<Proc("ok", 1, 50, 10)>>, vms,
                                    Secs(interval)), wait)
            /\ last_snapshot_time' = now

NextElapsed ==
    \/ EvaluateElapsed
    \/ HostCpuCheck
    \/ HostMemCheck
    \/ ProcSort
    \/ ProcCpuCheck
    \/ ProcMemCheck
    \/ VmCpuCheck
    \/ VmMemCheck

SpecElapsed == InitElapsed /\ [][NextElapsed]_vars

----------------------------------------------------------------------------
(* Claims *)

Throttle == Get(config, "alert_throttle_seconds", DefaultThrottle)

Idle == pc = "idle" /\ evals > 0

(* C1: under a non-decreasing clock and a window w > 0, two alerts emitted  *)
(* under the same key are at least w seconds apart: every alert logged      *)
(* under a key that has been logged before comes at least w after the       *)
(* previous one.                                                            *)
C1_SameKeyAlertsApart ==
    \A n \in 1..Len(log) :
        log[n].again => log[n].at - log[n].before >= Throttle

C1_Witness ==
    \E n \in 1..Len(log) :
        log[n].again /\ log[n].at - log[n].before >= Throttle /\ Throttle > 0

(* C2: _throttle_ok(key) on a key with no stored timestamp returns true and *)
(* records the current time, whatever the clock and the window.             *)
C2_FirstCallAllowed ==
    (gate # NoGate /\ ~gate.known) =>
        /\ gate.ok
        /\ gate.key \in DOMAIN last_alert_time
        /\ last_alert_time[gate.key] \in gate.now..clock

(* C3: once a key has been allowed at time t (the stored timestamp), a call *)
(* at t+e with 0 <= e < w returns false and a call at t+w or later returns  *)
(* true; with host CPU threshold 90 and w = 60, when the sample 95 at t is  *)
(* the first alert allowed for host_cpu, the samples 97 at t+5 and 96 at    *)
(* t+65 give a suppressed and an emitted alert.                             *)
ScenarioOf(n) ==
    /\ Len(trail) >= n
    /\ trail[1].cpu = 95 /\ trail[1].emitted
    /\ n >= 2 => trail[2].cpu = 97 /\ trail[2].at = trail[1].at + 5
    /\ n >= 3 => trail[3].cpu = 96 /\ trail[3].at = trail[1].at + 65

C3_ThrottleWindow ==
    /\ gate.known =>
          /\ gate.now - gate.last < Throttle => ~gate.ok
          /\ gate.now - gate.last >= Throttle => gate.ok
    /\ ScenarioOf(2) => ~trail[2].emitted
    /\ ScenarioOf(3) => trail[3].emitted

C3_Witness ==
    /\ ScenarioOf(3)
    /\ ~trail[2].emitted /\ trail[3].emitted
    /\ gate.known /\ gate.ok /\ gate.now - gate.last >= Throttle
    /\ Get(config, "host_alerts.cpu_percent", DefaultThreshold) = 90 /\ Throttle = 60

(* what an evaluation of well-formed data goes through *)
Procs == snapshot.processes
Vms == snapshot.vms
Interval == IntervalOf(snapshot, config)

ProcsOk == \A n \in 1..Len(Procs) : Procs[n].kind = "ok"
WellFormed ==
    /\ snapshot.host.kind \in {"none", "ok"}
    /\ ProcsOk
    /\ \A n \in 1..Len(Vms) : Vms[n].kind = "ok"

HostChecks == IF snapshot.host.kind = "none" THEN {} ELSE {<<"host_cpu">>, <<"host_mem">>}
ProcChecks(n) == {<<"proc_cpu", n>>, <<"proc_mem", n>>}
VmChecks(n) == {<<"vm_cpu", n>>, <<"vm_mem", n>>}

DeliveryFailed == \E n \in 1..Len(log) : log[n].send \in {"failed", "raised"}

(* C4: a delivery failure inside _emit_alert does not reach check_and_alert: *)
(* after a failed delivery every remaining threshold check of the evaluation *)
(* is still made, whatever the email configuration.                          *)
C4_SinkFailureContained ==
    (Idle /\ WellFormed /\ Len(Procs) <= TopN /\ DeliveryFailed) =>
        /\ HostChecks \subseteq checked
        /\ \A n \in 1..Len(Procs) : ProcChecks(n) \subseteq checked
        /\ \A n \in 1..Len(Vms) : VmChecks(n) \subseteq checked

(* the record of VM name that an evaluation saw last *)
LastOf(n) == \A m \in (n + 1)..Len(Vms) : Vms[m].kind = "ok" => Vms[m].name # Vms[n].name

(* C5: after an evaluation that saw a well-formed record of VM v, the stored *)
(* baseline of v is that record's cpuTime, whatever the interval (None, zero *)
(* and negative included).                                                   *)
C5_BaselineFollowsRecord ==
    Idle =>
        \A n \in 1..Len(Vms) :
            (Vms[n].kind = "ok" /\ LastOf(n)) =>
                /\ Vms[n].name \in DOMAIN _last_vm_cpu_time
                /\ _last_vm_cpu_time[Vms[n].name] = Vms[n].cpuTime

Logged(key) == \E n \in 1..Len(log) : log[n].key = key

(* C6: one malformed process record does not end the process checks: every  *)
(* other, well-formed process of the top 20 is checked, and alerted when it *)
(* exceeds a threshold and is not throttled.                                *)
C6_MalformedProcessIsolated ==
    (Idle /\ Cardinality({n \in 1..Len(Procs) : Procs[n].kind # "ok"}) = 1
          /\ Len(Procs) <= TopN /\ Get(config, "email", "disabled") # "incomplete") =>
        \A n \in 1..Len(Procs) :
            Procs[n].kind = "ok" =>
                /\ ProcChecks(n) \subseteq checked
                /\ (evals = 1 /\ Procs[n].cpu >= Get(config, "process_alerts.cpu_percent", DefaultThreshold))
                      => Logged(ProcKey("proc_cpu", Procs[n].pid))

BaselineStored(n) ==
    (Vms[n].kind = "ok" /\ LastOf(n)) =>
        /\ Vms[n].name \in DOMAIN _last_vm_cpu_time
        /\ _last_vm_cpu_time[Vms[n].name] = Vms[n].cpuTime

VmReached(n) == <<"vm_cpu", n>> \in checked \/ <<"vm", n>> \in failed

(* C7: a failure of the host checks prevents neither the process checks nor *)
(* the VM checks, and a failure of the process checks (in the sort or in    *)
(* the loop) does not prevent the VM checks: every VM record is gone        *)
(* through, and its baseline is the record's cpuTime afterwards.            *)
C7_PassesIsolated ==
    /\ (Idle /\ <<"host">> \in failed /\ <<"procs">> \notin failed /\ Len(Procs) <= TopN) =>
          \A n \in 1..Len(Procs) : ProcChecks(n) \subseteq checked
    /\ (Idle /\ (<<"host">> \in failed \/ <<"procs">> \in failed)) =>
          \A n \in 1..Len(Vms) : VmReached(n) /\ BaselineStored(n)

(* The VM checks over the records vms[n..] as one computation, from         *)
(* st = [base, lat, keys]: the baselines, the throttle timestamps and the   *)
(* keys alerted so far, at a clock that stands still.                       *)
RECURSIVE VmPassOf(_, _, _)
VmPassOf(vms, n, st) ==
    IF n > Len(vms) THEN st
    ELSE
        LET vm == vms[n]
            r == _vm_cpu_percent_from_delta(st.base, vm.name, vm.cpuTime, Interval)
            cpu_key == VmKey("vm_cpu", vm.name)
            mem_key == VmKey("vm_mem", vm.name)
            cpu_hit == r.ret.avail
                         /\ r.ret.pct >= Get(config, "vm_alerts.cpu_percent", DefaultThreshold)
            g1 == _throttle_ok(st.lat, config, cpu_key, clock, clock)
            cpu_alert == cpu_hit /\ g1.ok
            lat1 == IF cpu_hit THEN g1.lat ELSE st.lat
            keys1 == IF cpu_alert THEN Append(st.keys, cpu_key) ELSE st.keys
            raised == cpu_alert /\ _send_email(config, TRUE) = "raised"
            m == VmMemPercent(vm.memKB, vm.maxMemKB)
            mem_hit == ~raised /\ m.avail
                         /\ m.pct >= Get(config, "vm_alerts.memory_percent", DefaultThreshold)
            g2 == _throttle_ok(lat1, config, mem_key, clock, clock)
        IN  VmPassOf(vms, n + 1,
                     [base |-> r.base,
                      lat  |-> IF mem_hit THEN g2.lat ELSE lat1,
                      keys |-> IF mem_hit /\ g2.ok THEN Append(keys1, mem_key) ELSE keys1])

IsVmKey(key) == key[1] \in {"vm_cpu", "vm_mem"}
VmKeysOf(d) == {k \in DOMAIN d : IsVmKey(k)}
WellFormedVms == SelectSeq(Vms, LAMBDA vm : vm.kind = "ok")
LoggedVmKeys == [n \in 1..Len(SelectSeq(log, LAMBDA e : IsVmKey(e.key))) |->
                    SelectSeq(log, LAMBDA e : IsVmKey(e.key))[n].key]
WithoutMalformed == VmPassOf(WellFormedVms, 1, [base |-> base0, lat |-> lat0, keys |-> <<>>])
SomeVmMalformed == \E n \in 1..Len(Vms) : Vms[n].kind = "bad"

(* C8: a malformed VM record, wherever it stands in the list, leaves the    *)
(* evaluation of the other VMs as it is without that record: the same       *)
(* baselines, the same VM alerts in the same order, the same throttle       *)
(* timestamps of the VM keys.                                               *)
C8_MalformedVmIsolated ==
    (Idle /\ SomeVmMalformed) =>
        /\ _last_vm_cpu_time = WithoutMalformed.base
        /\ LoggedVmKeys = WithoutMalformed.keys
        /\ VmKeysOf(last_alert_time) = VmKeysOf(WithoutMalformed.lat)
        /\ \A k \in VmKeysOf(last_alert_time) : last_alert_time[k] = WithoutMalformed.lat[k]
        /\ \A n \in 1..Len(Vms) : Vms[n].kind = "ok" => <<"vm_cpu", n>> \in checked

C8_Witness ==
    /\ Idle /\ evals = 2
    /\ Len(Vms) = 2 /\ Vms[1].kind = "bad" /\ Vms[2].kind = "ok"
    /\ LoggedVmKeys = <<VmKey("vm_cpu", Vms[2].name), VmKey("vm_mem", Vms[2].name)>>
    /\ _last_vm_cpu_time[Vms[2].name] = Vms[2].cpuTime

RankedSet == {ranked[x] : x \in 1..Len(ranked)}
Outranks(a, b) ==
    \/ Procs[a].cpu > Procs[b].cpu
    \/ Procs[a].cpu = Procs[b].cpu /\ a < b
Sorted == pc \notin {"host_cpu", "host_mem", "sort"} /\ <<"procs">> \notin failed /\ evals > 0
Cut == (1..Len(Procs)) \ RankedSet

(* C9: only the 20 records of highest CPU percent (descending, ties in      *)
(* input order) are evaluated: a record ranked 21st or lower is not         *)
(* checked, gets no alert and leaves last_alert_time as it was.             *)
C9_OnlyTopTwenty ==
    (Sorted /\ ProcsOk) =>
        /\ Len(ranked) = IF Len(Procs) < 20 THEN Len(Procs) ELSE 20
        /\ RankedSet \subseteq 1..Len(Procs)
        /\ \A x, y \in 1..Len(ranked) : x < y => Outranks(ranked[x], ranked[y])
        /\ \A a \in RankedSet, b \in Cut : Outranks(a, b)
        /\ \A b \in Cut :
              /\ ProcChecks(b) \cap checked = {}
              /\ (\A a \in RankedSet : Procs[a].pid # Procs[b].pid) =>
                    \A metric \in {"proc_cpu", "proc_mem"} :
                        LET key == ProcKey(metric, Procs[b].pid)
                        IN  /\ ~Logged(key)
                            /\ key \in DOMAIN last_alert_time <=> key \in DOMAIN lat0
                            /\ key \in DOMAIN lat0 => last_alert_time[key] = lat0[key]

C9_Witness ==
    /\ Idle /\ evals = 1
    /\ Len(Procs) = 22 /\ ranked[1] = 21 /\ Cut = {20, 22}
    /\ Procs[22].cpu = 95 /\ Procs[22].mem_percent = 95
    /\ Len(log) = 40
    /\ ProcKey("proc_cpu", 22) \notin DOMAIN last_alert_time

PositiveInterval == est.interval.kind = "num" /\ est.interval.v > 0

(* C10: _vm_cpu_percent_from_delta on a name without baseline (positive     *)
(* interval) stores the value and returns None; the next call with a larger *)
(* value returns (delta_ns / 1e9) / interval_seconds * 100 unclamped:       *)
(* baseline 1e9, value 3e9, interval 2 gives 100.                           *)
C10_FirstSampleThenRate ==
    /\ (est # NoEst /\ ~est.known /\ PositiveInterval) =>
          /\ ~est.ret.avail
          /\ est.name \in DOMAIN _last_vm_cpu_time
          /\ _last_vm_cpu_time[est.name] = est.value
    /\ (est.known /\ est.value > est.prev /\ PositiveInterval) =>
          /\ est.ret.avail
          /\ est.ret.pct * UnitsPerSecond * est.interval.v = (est.value - est.prev) * 100
    /\ (est.known /\ est.prev = 1000 /\ est.value = 3000 /\ est.interval = Secs(2)) =>
          est.ret = Percent(100)

C10_Witness ==
    /\ est.known /\ est.prev = 1000 /\ est.value = 3000 /\ est.interval = Secs(1)
    /\ est.ret = Percent(200)
    /\ base0 = [n \in {est.name} |-> 1000]

(* C11: _vm_cpu_percent_from_delta with a positive interval and a value not *)
(* above the stored baseline returns None, the check of that record emits   *)
(* no VM CPU alert, and the baseline becomes the new value.                 *)
C11_ResetRebasesSilently ==
    (est.known /\ est.value <= est.prev /\ PositiveInterval) =>
        /\ ~est.ret.avail
        /\ ~est.alerted
        /\ est.name \in DOMAIN _last_vm_cpu_time
        /\ _last_vm_cpu_time[est.name] = est.value

C11_Witness ==
    /\ est.known /\ est.prev = 3000 /\ est.value = 500 /\ est.interval = Secs(2)
    /\ ~est.ret.avail /\ ~est.alerted
    /\ _last_vm_cpu_time[est.name] = 500

UniqueVmNames == \A a, b \in 1..Len(Vms) : a # b => Vms[a].name # Vms[b].name
VmCpuAlerts == {log[n].key[2] : n \in {m \in 1..Len(log) : log[m].key[1] = "vm_cpu"}}

Undelivered == {k \in DOMAIN delivery : delivery[k] \in {"failed", "raised"}}

(* C13: the timestamp recorded for an alert stays when its delivery fails:  *)
(* while the latest alert of key k is undelivered, last_alert_time[k] is    *)
(* the time recorded for it, and a violation of k gated before that time    *)
(* plus the window is refused and leaves the timestamp as it is.            *)
C13_TimestampKeptOnFailure ==
    /\ \A k \in Undelivered :
          k \in DOMAIN last_alert_time /\ last_alert_time[k] = emitted[k]
    /\ (gate.unsent /\ gate.now < gate.last + Throttle) =>
          /\ ~gate.ok
          /\ gate.key \in Undelivered
          /\ last_alert_time[gate.key] = gate.last

C13_Witness ==
    /\ gate.unsent /\ ~gate.ok /\ gate.now = gate.last + Throttle - 1
    /\ delivery[gate.key] = "failed"
    /\ last_alert_time[gate.key] = emitted[gate.key]
    /\ evals = 2

(* the condition check_and_alert stands at: its alert key, and whether its  *)
(* threshold is met, so that _throttle_ok is called by the next step        *)
Threshold(option) == Get(config, option, DefaultThreshold)

CurrentKey ==
    CASE pc = "host_cpu" -> HostKey("host_cpu")
      [] pc = "host_mem" -> HostKey("host_mem")
      [] pc = "proc_cpu" -> ProcKey("proc_cpu", Procs[ranked[i]].pid)
      [] pc = "proc_mem" -> ProcKey("proc_mem", Procs[ranked[i]].pid)
      [] pc = "vm_cpu"   -> VmKey("vm_cpu", Vms[j].name)
      [] pc = "vm_mem"   -> VmKey("vm_mem", Vms[j].name)
      [] OTHER           -> <<"none">>

CurrentMet ==
    CASE pc = "host_cpu" -> /\ snapshot.host.kind \in {"ok", "no_mem"}
                            /\ snapshot.host.cpu_percent >= Threshold("host_alerts.cpu_percent")
      [] pc = "host_mem" -> /\ snapshot.host.kind = "ok"
                            /\ snapshot.host.mem_percent >= Threshold("host_alerts.memory_percent")
      [] pc = "proc_cpu" -> Procs[ranked[i]].cpu >= Threshold("process_alerts.cpu_percent")
      [] pc = "proc_mem" -> /\ Procs[ranked[i]].kind = "ok"
                            /\ Procs[ranked[i]].mem_percent
                                  >= Threshold("process_alerts.memory_percent")
      [] pc = "vm_cpu"   -> /\ Vms[j].kind = "ok"
                            /\ Interval.kind = "num" /\ Interval.v > 0
                            /\ Vms[j].name \in DOMAIN _last_vm_cpu_time
                            /\ Vms[j].cpuTime > _last_vm_cpu_time[Vms[j].name]
                            /\ (Vms[j].cpuTime - _last_vm_cpu_time[Vms[j].name]) * 100
                                  >= Threshold("vm_alerts.cpu_percent") * UnitsPerSecond * Interval.v
      [] pc = "vm_mem"   -> /\ Vms[j].maxMemKB > 0
                            /\ Vms[j].memKB * 100
                                  >= Threshold("vm_alerts.memory_percent") * Vms[j].maxMemKB
      [] OTHER           -> FALSE

(* C14: last_alert_time changes only in a _throttle_ok call that returns    *)
(* true, and then only at the key of the call; a call that returns false    *)
(* leaves the whole map as it is, and so does a check whose threshold is    *)
(* not met.                                                                 *)
C14_TimestampOnlyOnAllow ==
    [][ /\ last_alert_time' # last_alert_time =>
              /\ CurrentMet /\ gate'.ok /\ gate'.key = CurrentKey
              /\ last_alert_time' = Put(last_alert_time, CurrentKey, last_alert_time'[CurrentKey])
              /\ last_alert_time'[CurrentKey] \in clock..clock'
        /\ (CurrentMet /\ ~gate'.ok) => last_alert_time' = last_alert_time
        /\ ~CurrentMet => last_alert_time' = last_alert_time ]_vars

C14_Witness ==
    /\ Idle /\ evals = 2
    /\ gate.known /\ ~gate.ok /\ gate.key = HostKey("host_cpu")
    /\ <<"host_mem">> \in checked /\ snapshot.host.mem_percent < Threshold("host_alerts.memory_percent")
    /\ last_alert_time = lat0 /\ DOMAIN lat0 = {HostKey("host_cpu")}

(* C15: within one evaluation at most one alert is emitted under a key,     *)
(* however long the delivery of the first one takes.                        *)
C15_OneAlertPerKeyPerEvaluation ==
    \A a, b \in 1..Len(log) : a # b => log[a].key # log[b].key

NoMemLimit(n) ==
    /\ Vms[n].kind = "ok" /\ Vms[n].maxMemKB <= 0
    /\ \A m \in 1..Len(Vms) : m # n => Vms[m].name # Vms[n].name

SameTimestamp(key) ==
    /\ key \in DOMAIN last_alert_time <=> key \in DOMAIN lat0
    /\ key \in DOMAIN lat0 => last_alert_time[key] = lat0[key]

(* C18: a VM record whose maxMemKB is 0 gets no VM memory alert and no      *)
(* vm_mem timestamp, whatever its memKB and the memory threshold, and its   *)
(* CPU check is made.                                                       *)
C18_NoMemoryAlertWithoutLimit ==
    \A n \in 1..Len(Vms) :
        NoMemLimit(n) =>
            /\ ~Logged(VmKey("vm_mem", Vms[n].name))
            /\ SameTimestamp(VmKey("vm_mem", Vms[n].name))
            /\ Idle => <<"vm_cpu", n>> \in checked

C18_Witness ==
    /\ Idle /\ Len(Vms) = 1 /\ NoMemLimit(1) /\ Vms[1].memKB = 950
    /\ Threshold("vm_alerts.memory_percent") = 0
    /\ <<"vm_mem", 1>> \in checked
    /\ Logged(VmKey("vm_cpu", Vms[1].name))
    /\ VmKey("vm_mem", Vms[1].name) \notin DOMAIN last_alert_time

HostInRange ==
    /\ snapshot.host.kind = "ok"
    /\ snapshot.host.cpu_percent >= 0
    /\ snapshot.host.mem_percent >= 0 /\ snapshot.host.mem_percent <= 100

(* C19: with no host threshold configured, no Host CPU Alert and no Host    *)
(* Memory Alert is emitted for host metrics within their ranges.            *)
C19_DefaultsDisableHostAlerts ==
    ({"host_alerts.cpu_percent", "host_alerts.memory_percent"} \cap DOMAIN config = {}
        /\ HostInRange) =>
            ~Logged(HostKey("host_cpu")) /\ ~Logged(HostKey("host_mem"))

PollInterval == Get(config, "poll_interval", DefaultPollInterval)

(* C20: for a snapshot without interval entry the VM CPU rate is taken over *)
(* the configured poll_interval (default 2), so that a VM with a baseline   *)
(* and a positive delta gets a CPU percent; with an interval entry that is  *)
(* None, zero or negative the VM CPU check gives no percent and no alert.   *)
C20_IntervalFallback ==
    est # NoEst =>
        /\ snapshot.interval = Absent =>
              /\ est.interval = Secs(PollInterval)
              /\ (est.known /\ est.value > est.prev) =>
                    /\ est.ret.avail
                    /\ est.ret.pct * UnitsPerSecond * PollInterval = (est.value - est.prev) * 100
        /\ (snapshot.interval = IsNone
               \/ (snapshot.interval.kind = "num" /\ snapshot.interval.v <= 0)) =>
              ~est.ret.avail /\ ~est.alerted

C20_Witness ==
    /\ snapshot.interval = Absent /\ "poll_interval" \notin DOMAIN config
    /\ est.known /\ est.prev = 1000 /\ est.value = 3000
    /\ est.ret = Percent(100) /\ est.alerted
    /\ Logged(VmKey("vm_cpu", est.name))

(* C16: a notification send that has started runs to its end before the     *)
(* program exits, in every interleaving of the signal handler, the main     *)
(* thread and the monitor thread.                                           *)
C16_SendNeverCut ==
    main = "exited" => ~cut /\ run # "send"

(* C17: no exception raised in on_snapshot (by the VM listing or by         *)
(* check_and_alert) ends ProcessMonitor.run: after it the thread waits and  *)
(* goes on to the next snapshot, unless the stop event is set.              *)
C17_LoopSurvivesExceptions ==
    /\ [](run # "crashed")
    /\ [][erred' /\ ~erred => run' \in {"evaluate", "wait"}]_vars
    /\ (erred ~> (run = "sample" \/ stop_event))

C17_Witness ==
    /\ erred /\ run = "sample" /\ ~stop_event /\ main # "exited"

(* C21: once the stop event is set, run begins at most one further snapshot *)
(* acquisition and evaluation, and every evaluation that has started runs   *)
(* to its end: the program does not exit with the monitor thread inside     *)
(* on_snapshot.                                                             *)
C21_CooperativeShutdown ==
    /\ late <= 1
    /\ main = "exited" => halted \notin {"list", "evaluate", "send"}

(* C22: whenever _vm_cpu_percent_from_delta returns a percent for a VM, the *)
(* interval it divides by is the time elapsed since the snapshot that       *)
(* stored the VM's baseline, also when the VM was missing from snapshots in *)
(* between or a sample came with a non-positive interval.                   *)
C22_DenominatorIsElapsed ==
    est.ret.avail => est.interval = Secs(est.since)

====
